---- MODULE Spec2Model ----
(***************************************************************************)
(* Job queue, bounded-concurrency coordinator and worker of the book       *)
(* downloader (src/backend.py).  The queue object book_queue lives in      *)
(* models.py; its operations are modelled from section 4.1 of the          *)
(* specification and are prefixed BQ_.                                     *)
(***************************************************************************)
EXTENDS Integers, Sequences, FiniteSets, TLC

\* ------------------------------------------------------------------ bounds
\* the scheduler specification: jobs 1..NumJobs, all with the default priority
NumJobs == 2
MaxConcurrentDownloads == 1
BookIds == 1..NumJobs
SchedPriorities == {0}

\* the queue specification: the jobs A, B, C (1, 2, 3) and three priorities
QueueIds == {1, 2, 3}
QueuePriorities == {1, 3, 5}

\* get_next() returned None
NoJob == 0

Terminal == {"AVAILABLE", "ERROR", "CANCELLED"}
QueueStatus == {"QUEUED", "DOWNLOADING"} \cup Terminal

VARIABLES
    status,          \* book_queue: id -> QueueStatus, for the ids in the queue
    priority,        \* book_queue: id -> priority
    order,           \* book_queue: the waiting (QUEUED) ids in insertion order
    cancel_flags,    \* book_queue: id -> whether the job's Event is set
    download_path,   \* book_queue._book_data[id].download_path is not None
    progress,        \* book_queue: id -> percent
    coordPc,         \* position of concurrent_download_loop
    next_download,   \* concurrent_download_loop: result of the last get_next()
    active_futures,  \* concurrent_download_loop: slot -> worker execution
    ret,             \* what the last caller-facing operation returned
    failover,        \* book_manager.download_book: its locals and what it did
    transfer,        \* downloader.download_url: its locals and what it did
    disk             \* the files in TMP_DIR and INGEST_DIR and who made them

queueVars == <<status, priority, order, cancel_flags, download_path, progress>>
coordVars == <<coordPc, next_download, active_futures>>
callVars == <<failover, transfer, disk>>
vars == <<status, priority, order, cancel_flags, download_path, progress,
          coordPc, next_download, active_futures, ret, failover, transfer,
          disk>>

\* ------------------------------------------------------- queue: pure part
Known == DOMAIN status

WithStatus(s) == {id \in Known : status[id] = s}

Pos(id) == CHOOSE i \in 1..Len(order) : order[i] = id

\* (priority asc, insertion order asc)
Before(a, b) ==
    \/ priority[a] < priority[b]
    \/ priority[a] = priority[b] /\ Pos(a) < Pos(b)

MinOf(S) == CHOOSE a \in S : \A b \in S \ {a} : Before(a, b)

RECURSIVE SortIds(_)
SortIds(S) == IF S = {} THEN <<>> ELSE <<MinOf(S)>> \o SortIds(S \ {MinOf(S)})

BQ_get_queue_order == SortIds(WithStatus("QUEUED"))

BQ_get_active_downloads == WithStatus("DOWNLOADING")

\* mutant: the waiting job inserted first, whatever its priority
BQ_get_next_id_Fifo ==
    IF WithStatus("QUEUED") = {} THEN NoJob ELSE Head(order)

BQ_get_next_id ==
    IF WithStatus("QUEUED") = {} THEN NoJob ELSE MinOf(WithStatus("QUEUED"))

Remove(seq, S) == SelectSeq(seq, LAMBDA x : x \notin S)

Restrict(f, S) == [x \in S |-> f[x]]

Clamp(p) == IF p < 0 THEN 0 ELSE IF p > 100 THEN 100 ELSE p

\* --------------------------------------------------- queue: the operations
\* mutant: a job added again waits again
BQ_add_Requeue(id, p) ==
    /\ status' = IF id \in Known THEN [status EXCEPT ![id] = "QUEUED"]
                 ELSE status @@ (id :> "QUEUED")
    /\ priority' = IF id \in Known THEN [priority EXCEPT ![id] = p]
                   ELSE priority @@ (id :> p)
    /\ order' = Append(Remove(order, {id}), id)
    /\ cancel_flags' = IF id \in Known THEN cancel_flags
                       ELSE cancel_flags @@ (id :> FALSE)
    /\ download_path' = IF id \in Known THEN download_path
                        ELSE download_path @@ (id :> FALSE)
    /\ progress' = IF id \in Known THEN progress ELSE progress @@ (id :> 0)

BQ_add(id, p) ==
    IF id \in Known
    THEN /\ priority' = [priority EXCEPT ![id] = p]
         /\ UNCHANGED <<status, order, cancel_flags, download_path, progress>>
    ELSE /\ status' = status @@ (id :> "QUEUED")
         /\ priority' = priority @@ (id :> p)
         /\ order' = Append(order, id)
         /\ cancel_flags' = cancel_flags @@ (id :> FALSE)
         /\ download_path' = download_path @@ (id :> FALSE)
         /\ progress' = progress @@ (id :> 0)

BQ_get_next ==
    /\ BQ_get_next_id # NoJob
    /\ status' = [status EXCEPT ![BQ_get_next_id] = "DOWNLOADING"]
    /\ order' = Remove(order, {BQ_get_next_id})
    /\ UNCHANGED <<priority, cancel_flags, download_path, progress>>

\* mutant: the status of the job is not looked at
BQ_set_priority_ok_AnyKnown(id) == id \in Known

BQ_set_priority_ok(id) == id \in Known /\ status[id] \notin Terminal

BQ_set_priority(id, p) ==
    /\ priority' = IF BQ_set_priority_ok(id)
                   THEN [priority EXCEPT ![id] = p] ELSE priority
    /\ UNCHANGED <<status, order, cancel_flags, download_path, progress>>

\* mutant: the batch is left after its first update
BQ_reorder_queue_Partial(m) ==
    /\ priority' = [id \in Known |->
                      IF /\ id \in DOMAIN m
                         /\ status[id] \notin Terminal
                         /\ \A other \in DOMAIN m : id <= other
                      THEN m[id] ELSE priority[id]]
    /\ UNCHANGED <<status, order, cancel_flags, download_path, progress>>

BQ_reorder_queue(m) ==
    /\ priority' = [id \in Known |->
                      IF id \in DOMAIN m /\ status[id] \notin Terminal
                      THEN m[id] ELSE priority[id]]
    /\ UNCHANGED <<status, order, cancel_flags, download_path, progress>>

BQ_update_status(id, s) ==
    /\ status' = IF id \in Known THEN [status EXCEPT ![id] = s] ELSE status
    /\ order' = IF s = "QUEUED" THEN order ELSE Remove(order, {id})
    /\ UNCHANGED <<priority, cancel_flags, download_path, progress>>

BQ_update_progress(id, p) ==
    /\ progress' = IF id \in Known
                   THEN [progress EXCEPT ![id] = Clamp(p)] ELSE progress
    /\ UNCHANGED <<status, priority, order, cancel_flags, download_path>>

BQ_update_download_path(id) ==
    /\ download_path' = IF id \in Known
                        THEN [download_path EXCEPT ![id] = TRUE]
                        ELSE download_path
    /\ UNCHANGED <<status, priority, order, cancel_flags, progress>>

\* mutant: a terminal job is signalled like any other
BQ_cancel_download_ok_AnyKnown(id) == id \in Known

BQ_cancel_download_ok(id) == id \in Known /\ status[id] \notin Terminal

BQ_cancel_download(id) ==
    IF BQ_cancel_download_ok(id)
    THEN /\ cancel_flags' = [cancel_flags EXCEPT ![id] = TRUE]
         /\ status' = IF status[id] = "QUEUED"
                      THEN [status EXCEPT ![id] = "CANCELLED"] ELSE status
         /\ order' = Remove(order, {id})
         /\ UNCHANGED <<priority, download_path, progress>>
    ELSE UNCHANGED queueVars

\* mutant: only the successful downloads count as completed
Completed_OnlyAvailable == {id \in Known : status[id] = "AVAILABLE"}

Completed == {id \in Known : status[id] \in Terminal}

BQ_clear_completed ==
    /\ status' = Restrict(status, Known \ Completed)
    /\ priority' = Restrict(priority, Known \ Completed)
    /\ cancel_flags' = Restrict(cancel_flags, Known \ Completed)
    /\ download_path' = Restrict(download_path, Known \ Completed)
    /\ progress' = Restrict(progress, Known \ Completed)
    /\ UNCHANGED order

\* ------------------------------------------------ caller-facing operations
\* found: whether book_manager.get_book_info(book_id) returned (else it raised)
queue_book(id, p, found) ==
    /\ IF found THEN BQ_add(id, p) ELSE UNCHANGED queueVars
    /\ UNCHANGED coordVars

queue_book_ret(id, p, found) == found

\* mutant: the Event is set and the status is left alone
cancel_download_SignalOnly(id) ==
    /\ cancel_flags' = IF id \in Known
                       THEN [cancel_flags EXCEPT ![id] = TRUE]
                       ELSE cancel_flags
    /\ UNCHANGED <<status, priority, order, download_path, progress>>
    /\ UNCHANGED coordVars

cancel_download(id) ==
    /\ BQ_cancel_download(id)
    /\ UNCHANGED coordVars

cancel_download_ret(id) == BQ_cancel_download_ok(id)

set_book_priority(id, p) ==
    /\ BQ_set_priority(id, p)
    /\ UNCHANGED coordVars

set_book_priority_ret(id, p) == BQ_set_priority_ok(id)

reorder_queue(m) ==
    /\ BQ_reorder_queue(m)
    /\ UNCHANGED coordVars

clear_completed ==
    /\ BQ_clear_completed
    /\ UNCHANGED coordVars

clear_completed_ret == Cardinality(Completed)

\* mutant: the waiting jobs as they were inserted
get_queue_order_Unsorted == order

get_queue_order == BQ_get_queue_order

get_active_downloads == BQ_get_active_downloads

\* ------------------------------------------------------------- coordinator
\* active_futures is a dict; the slots are one more than the limit, so that
\* a dict grown beyond the limit has a place in the model
Slots == DOMAIN active_futures

\* a worker execution: the job, the position in _process_single_download,
\* the locals success and download_path, the files it has on disk and the
\* status it wrote last
Idle == [id |-> NoJob, pc |-> "idle", success |-> FALSE, path |-> FALSE,
         files |-> {}, new_status |-> "none"]

Active == {w \in Slots : active_futures[w].pc # "idle"}

FreeSlot == CHOOSE w \in Slots \ Active : \A v \in Slots \ Active : w <= v

\* mutant: a future that ended without AVAILABLE is never popped
CoordReap_KeepFailed ==
    /\ coordPc = "reap"
    /\ active_futures' = [w \in Slots |->
           IF /\ active_futures[w].pc = "done"
              /\ active_futures[w].new_status = "AVAILABLE"
           THEN Idle ELSE active_futures[w]]
    /\ coordPc' = "dispatch"
    /\ UNCHANGED <<queueVars, next_download, ret>>

\* lines 1131-1137: pop every future that is done
CoordReap ==
    /\ coordPc = "reap"
    /\ active_futures' = [w \in Slots |->
           IF active_futures[w].pc = "done" THEN Idle ELSE active_futures[w]]
    /\ coordPc' = "dispatch"
    /\ UNCHANGED <<queueVars, next_download, ret>>

\* mutant: one future too many
HasCapacity_OffByOne == Cardinality(Active) <= MaxConcurrentDownloads

HasCapacity == Cardinality(Active) < MaxConcurrentDownloads

\* mutant: with no job waiting, a job that ended ERROR is run again
CoordGetNext_Retry ==
    /\ coordPc = "dispatch"
    /\ HasCapacity
    /\ IF BQ_get_next_id # NoJob
       THEN BQ_get_next /\ next_download' = BQ_get_next_id
       ELSE \E id \in Known :
               /\ status[id] = "ERROR"
               /\ status' = [status EXCEPT ![id] = "DOWNLOADING"]
               /\ next_download' = id
               /\ UNCHANGED <<priority, order, cancel_flags, download_path,
                              progress>>
    /\ coordPc' = "submit"
    /\ UNCHANGED <<active_futures, ret>>

\* lines 1140-1141: capacity left and get_next() returns a job
CoordGetNext ==
    /\ coordPc = "dispatch"
    /\ HasCapacity
    /\ BQ_get_next
    /\ next_download' = BQ_get_next_id
    /\ coordPc' = "submit"
    /\ UNCHANGED <<active_futures, ret>>

\* mutant: the job is submitted to every thread that is free
CoordSubmit_Every ==
    /\ coordPc = "submit"
    /\ active_futures' = [w \in Slots |->
           IF w \in Active THEN active_futures[w]
           ELSE [Idle EXCEPT !.id = next_download, !.pc = "submitted"]]
    /\ next_download' = NoJob
    /\ coordPc' = "dispatch"
    /\ UNCHANGED <<queueVars, ret>>

\* lines 1145-1150: executor.submit(_process_single_download, book_id, cancel_flag)
CoordSubmit ==
    /\ coordPc = "submit"
    /\ active_futures' = [active_futures EXCEPT ![FreeSlot] =
           [Idle EXCEPT !.id = next_download, !.pc = "submitted"]]
    /\ next_download' = NoJob
    /\ coordPc' = "dispatch"
    /\ UNCHANGED <<queueVars, ret>>

\* lines 1140-1143, 1153: no capacity, or get_next() returned nothing; sleep
CoordSleep ==
    /\ coordPc = "dispatch"
    /\ ~HasCapacity \/ BQ_get_next_id = NoJob
    /\ coordPc' = "reap"
    /\ UNCHANGED <<queueVars, next_download, active_futures, ret>>

\* ------------------------------------------------------------------ worker
At(w, pc) == w \in Slots /\ active_futures[w].pc = pc

Job(w) == active_futures[w].id

\* cancel_flag.is_set() of the Event the worker was given
Flag(w) == Job(w) \in Known /\ cancel_flags[Job(w)]

Goto(w, pc) ==
    active_futures' = [active_futures EXCEPT ![w].pc = pc]

\* line 1095
WorkerStart(w) ==
    /\ At(w, "submitted")
    /\ BQ_update_status(Job(w), "DOWNLOADING")
    /\ Goto(w, "check849")
    /\ UNCHANGED <<coordPc, next_download, ret>>

\* lines 849-874: the two checks before the download starts
WorkerCheck849(w) ==
    /\ At(w, "check849")
    /\ Goto(w, IF Flag(w) THEN "check1098" ELSE "download")
    /\ UNCHANGED <<queueVars, coordPc, next_download, ret>>

\* line 887: book_manager.download_book writes book_path and returns True,
\* returns False, or raises (caught at line 969); the progress callback
\* (lines 879-885, 1015-1017) stores the last percentage it was given
NoCallback == -1
DownloadOutcomes ==
    { [result |-> "ok", pct |-> 100],
      [result |-> "fail", pct |-> NoCallback],
      [result |-> "raise", pct |-> NoCallback] }

WorkerDownload(w, o) ==
    /\ At(w, "download")
    /\ IF o.pct = NoCallback THEN UNCHANGED queueVars
       ELSE BQ_update_progress(Job(w), o.pct)
    /\ active_futures' = [active_futures EXCEPT
           ![w].pc = IF o.result = "raise" THEN "check1098" ELSE "check892",
           ![w].success = (o.result = "ok"),
           ![w].files = IF o.result = "ok" THEN {"tmp"} ELSE {}]
    /\ UNCHANGED <<coordPc, next_download, ret>>

\* lines 890-907: cancelled: unlink book_path, return None; not success: raise
WorkerCheck892(w) ==
    /\ At(w, "check892")
    /\ active_futures' = [active_futures EXCEPT
           ![w].pc = IF Flag(w) \/ ~active_futures[w].success
                     THEN "check1098" ELSE "move",
           ![w].success = FALSE,
           ![w].files = IF Flag(w) THEN {} ELSE @]
    /\ UNCHANGED <<queueVars, coordPc, next_download, ret>>

\* lines 942-956: shutil.move(book_path, intermediate_path)
WorkerMove(w) ==
    /\ At(w, "move")
    /\ active_futures' = [active_futures EXCEPT
           ![w].pc = "check959", ![w].files = {"crdownload"}]
    /\ UNCHANGED <<queueVars, coordPc, next_download, ret>>

\* lines 959-963
WorkerCheck959(w) ==
    /\ At(w, "check959")
    /\ active_futures' = [active_futures EXCEPT
           ![w].pc = IF Flag(w) THEN "check1098" ELSE "rename965",
           ![w].files = IF Flag(w) THEN {} ELSE @]
    /\ UNCHANGED <<queueVars, coordPc, next_download, ret>>

\* lines 965-968: os.rename(intermediate_path, final_path); return the path
WorkerRename(w) ==
    /\ At(w, "rename965")
    /\ active_futures' = [active_futures EXCEPT
           ![w].pc = "check1098", ![w].path = TRUE, ![w].files = {"final"}]
    /\ UNCHANGED <<queueVars, coordPc, next_download, ret>>

\* mutant: the return of line 1100 is missing
WorkerCheck1098_NoReturn(w) ==
    /\ At(w, "check1098")
    /\ IF Flag(w)
       THEN /\ BQ_update_status(Job(w), "CANCELLED")
            /\ active_futures' = [active_futures EXCEPT
                   ![w].pc = "update1108", ![w].path = FALSE,
                   ![w].new_status = "CANCELLED"]
       ELSE /\ UNCHANGED queueVars
            /\ Goto(w, IF active_futures[w].path THEN "update1103"
                       ELSE "update1108")
    /\ UNCHANGED <<coordPc, next_download, ret>>

\* lines 1098-1100
WorkerCheck1098(w) ==
    /\ At(w, "check1098")
    /\ IF Flag(w)
       THEN /\ BQ_update_status(Job(w), "CANCELLED")
            /\ active_futures' = [active_futures EXCEPT
                   ![w].pc = "done", ![w].path = FALSE,
                   ![w].new_status = "CANCELLED"]
       ELSE /\ UNCHANGED queueVars
            /\ Goto(w, IF active_futures[w].path THEN "update1103"
                       ELSE "update1108")
    /\ UNCHANGED <<coordPc, next_download, ret>>

\* lines 1102-1103
WorkerUpdatePath(w) ==
    /\ At(w, "update1103")
    /\ BQ_update_download_path(Job(w))
    /\ Goto(w, "update1108")
    /\ UNCHANGED <<coordPc, next_download, ret>>

\* mutant: the execution ends without update_status
WorkerUpdateStatus_Skip(w) ==
    /\ At(w, "update1108")
    /\ active_futures' = [active_futures EXCEPT
           ![w].pc = "done", ![w].path = FALSE,
           ![w].new_status = IF active_futures[w].path THEN "AVAILABLE"
                             ELSE "ERROR"]
    /\ UNCHANGED <<queueVars, coordPc, next_download, ret>>

\* lines 1104-1108
WorkerUpdateStatus(w) ==
    /\ At(w, "update1108")
    /\ BQ_update_status(Job(w),
           IF active_futures[w].path THEN "AVAILABLE" ELSE "ERROR")
    /\ active_futures' = [active_futures EXCEPT
           ![w].pc = "done", ![w].path = FALSE,
           ![w].new_status = IF active_futures[w].path THEN "AVAILABLE"
                             ELSE "ERROR"]
    /\ UNCHANGED <<coordPc, next_download, ret>>

\* ------------------------------------------- download_book, download_url
\* no call of download_book is in progress
NoFailover ==
    [pc |-> "idle", links |-> <<>>, i |-> 0, waited |-> FALSE,
     fetched |-> <<>>, requested |-> <<>>, logged |-> 0, result |-> FALSE,
     key |-> FALSE, depth |-> 0]

\* no call of download_url is in progress
NoTransfer ==
    [pc |-> "idle", attempt |-> 0, responses |-> <<>>, sleeps |-> <<>>,
     stream_attempt |-> 0, fresh |-> 0, total_size |-> 0, downloaded |-> 0,
     content_type |-> <<>>, value |-> "none", reason |-> "none"]

\* no execution with files is looked at
NoDisk ==
    [use_title |-> FALSE, title |-> <<>>, files |-> {}, written |-> {},
     w |-> <<>>]

\* ------------------------------------------------------- the specification
\* the batches reorder_queue is called with: priorities for the ids of S
Reorders(sets, prios) ==
    UNION {[S -> prios] : S \in sets}

Init ==
    /\ status = <<>>
    /\ priority = <<>>
    /\ order = <<>>
    /\ cancel_flags = <<>>
    /\ download_path = <<>>
    /\ progress = <<>>
    /\ coordPc = "reap"
    /\ next_download = NoJob
    /\ active_futures = [w \in 1..(MaxConcurrentDownloads + 1) |-> Idle]
    /\ ret = [op |-> "none", val |-> 0]
    /\ failover = NoFailover
    /\ transfer = NoTransfer
    /\ disk = NoDisk

\* Callers of the scheduler specification: every job is queued with the
\* default priority of queue_book (line 772)
CallQueueBook ==
    \E id \in BookIds, p \in SchedPriorities, found \in BOOLEAN :
        queue_book(id, p, found) /\ UNCHANGED ret

CallCancel ==
    \E id \in BookIds : cancel_download(id) /\ UNCHANGED ret

CallSetPriority ==
    \E id \in BookIds, p \in SchedPriorities :
        set_book_priority(id, p) /\ UNCHANGED ret

CallReorder ==
    \E m \in Reorders(SUBSET BookIds, SchedPriorities) :
        reorder_queue(m) /\ UNCHANGED ret

CallClearCompleted ==
    clear_completed /\ UNCHANGED ret

Worker(w) ==
    \/ WorkerStart(w)
    \/ WorkerCheck849(w)
    \/ \E o \in DownloadOutcomes : WorkerDownload(w, o)
    \/ WorkerCheck892(w)
    \/ WorkerMove(w)
    \/ WorkerCheck959(w)
    \/ WorkerRename(w)
    \/ WorkerCheck1098(w)
    \/ WorkerUpdatePath(w)
    \/ WorkerUpdateStatus(w)

Next ==
    \/ CallQueueBook /\ UNCHANGED callVars
    \/ CallCancel /\ UNCHANGED callVars
    \/ CallSetPriority /\ UNCHANGED callVars
    \/ CallReorder /\ UNCHANGED callVars
    \/ CallClearCompleted /\ UNCHANGED callVars
    \/ CoordReap /\ UNCHANGED callVars
    \/ CoordGetNext /\ UNCHANGED callVars
    \/ CoordSubmit /\ UNCHANGED callVars
    \/ CoordSleep /\ UNCHANGED callVars
    \/ \E w \in Slots : Worker(w) /\ UNCHANGED callVars

Spec == Init /\ [][Next]_vars

\* the coordinator thread and every thread of the pool keep running
SpecLive ==
    /\ Spec
    /\ WF_vars((CoordReap \/ CoordGetNext \/ CoordSubmit \/ CoordSleep)
                   /\ UNCHANGED callVars)
    /\ \A w \in 1..(MaxConcurrentDownloads + 1) :
           WF_vars(Worker(w) /\ UNCHANGED callVars)

\* ---------------------------------------------- the queue under its clients
\* Each action is one call of a queue operation, with the value it returned
\* recorded in ret.  The coordinator and the workers appear as the calls they
\* make: get_next() (line 1141) and the final writes of
\* _process_single_download (lines 1098-1108).
Bool(b) == IF b THEN 1 ELSE 0

Returned(op, val) == ret' = [op |-> op, val |-> val]

\* the batches a client sends: a full reordering of the three jobs, or
\* priorities, equal ones included, for the first two
QueueReorders ==
    {m \in [QueueIds -> QueuePriorities] :
        \A a \in QueueIds, b \in QueueIds : a # b => m[a] # m[b]}
    \cup [{1, 2} -> QueuePriorities]

QQueueBook(id, p) ==
    /\ Returned("queue_book", Bool(queue_book_ret(id, p, TRUE)))
    /\ queue_book(id, p, TRUE)

QCancel(id) ==
    /\ Returned("cancel_download", Bool(cancel_download_ret(id)))
    /\ cancel_download(id)

QSetPriority(id, p) ==
    /\ Returned("set_book_priority", Bool(set_book_priority_ret(id, p)))
    /\ set_book_priority(id, p)

QReorder(m) ==
    /\ Returned("reorder_queue", 1)
    /\ reorder_queue(m)

QClearCompleted ==
    /\ Returned("clear_completed", clear_completed_ret)
    /\ clear_completed

QGetNext ==
    /\ Returned("get_next", BQ_get_next_id)
    /\ IF BQ_get_next_id = NoJob THEN UNCHANGED queueVars ELSE BQ_get_next
    /\ UNCHANGED coordVars

QFinish(id, ok) ==
    /\ id \in WithStatus("DOWNLOADING")
    /\ IF cancel_flags[id]
       THEN BQ_update_status(id, "CANCELLED")
       ELSE /\ status' = [status EXCEPT
                   ![id] = IF ok THEN "AVAILABLE" ELSE "ERROR"]
            /\ download_path' = [download_path EXCEPT ![id] = ok]
            /\ UNCHANGED <<priority, order, cancel_flags, progress>>
    /\ UNCHANGED <<coordVars, ret>>

QCallQueueBook == \E id \in QueueIds, p \in QueuePriorities : QQueueBook(id, p)

QCallCancel == \E id \in QueueIds : QCancel(id)

QCallSetPriority ==
    \E id \in QueueIds, p \in QueuePriorities : QSetPriority(id, p)

QCallReorder == \E m \in QueueReorders : QReorder(m)

QCallFinish == \E id \in QueueIds, ok \in BOOLEAN : QFinish(id, ok)

NextQueue ==
    \/ QCallQueueBook /\ UNCHANGED callVars
    \/ QCallCancel /\ UNCHANGED callVars
    \/ QCallSetPriority /\ UNCHANGED callVars
    \/ QCallReorder /\ UNCHANGED callVars
    \/ QClearCompleted /\ UNCHANGED callVars
    \/ QGetNext /\ UNCHANGED callVars
    \/ QCallFinish /\ UNCHANGED callVars

SpecQueue == Init /\ [][NextQueue]_vars

\* ------------------------------------------ book_manager.download_book
\* One call of download_book (book_manager.py lines 565-607), made by the
\* worker at backend.py line 887, for a job that is DOWNLOADING.

\* the longest list of candidate links
MaxLinks == 3

\* the calls of _get_download_url to itself for one link that are followed
MaxDepth == 3

\* What a candidate link does when it is tried:
\*   empty        _get_download_url returns "" (no page, or no link on it)
\*   raise        _get_download_url raises (no GET anchor, no JSON)
\*   countdown    the page shows a countdown; fetched again after the wait,
\*                it gives the URL, and the download succeeds
\*   gate         the page shows a countdown every time it is fetched
\*   no_data      download_url returns None: the request failed
\*   markup       download_url returns None: a short HTML answer
\*   write_error  writing book_path raises
\*   ok           the file is written
LinkKinds ==
    {"empty", "raise", "countdown", "gate", "no_data", "markup", "write_error",
     "ok"}

Succeeds(kind) == kind \in {"countdown", "ok"}

\* the job download_book is called for
FailoverJob == 1

\* the worker execution that makes the call: the first slot
Caller == CHOOSE w \in Slots : \A v \in Slots : w <= v

\* `continue`, or the end of the for loop and `return False`; log is 1 when
\* the except branch (lines 603-605) logs the failure
NextLink(f, log) ==
    IF f.i < Len(f.links)
    THEN [f EXCEPT !.i = @ + 1, !.pc = "resolve", !.waited = FALSE,
                   !.depth = 0, !.logged = @ + log]
    ELSE [f EXCEPT !.pc = "returned", !.result = FALSE, !.depth = 0,
                   !.logged = @ + log]

\* lines 576-585: the list of the job is the list that is walked; with
\* AA_DONATOR_KEY the fast download link is inserted at its head; kind is
\* what that link does when it is tried
FailoverStart(kind) ==
    /\ failover.pc = "start"
    /\ failover' = IF failover.key
                   THEN [failover EXCEPT !.links = <<kind>> \o @,
                                         !.pc = "resolve"]
                   ELSE [failover EXCEPT !.pc = "resolve"]
    /\ UNCHANGED <<queueVars, coordVars, ret, transfer, disk>>

\* lines 589, 610-646: _get_download_url fetches the page of the link
FailoverResolve ==
    /\ failover.pc = "resolve"
    /\ LET kind == failover.links[failover.i]
           f == [failover EXCEPT !.fetched = Append(@, failover.i)]
       IN  failover' =
               CASE kind = "empty" -> NextLink(f, 0)
                 [] kind = "raise" -> NextLink(f, 1)
                 [] kind = "countdown" /\ ~failover.waited ->
                        [f EXCEPT !.pc = "wait"]
                 [] kind = "gate" -> [f EXCEPT !.pc = "wait"]
                 [] OTHER -> [f EXCEPT !.pc = "request"]
    /\ UNCHANGED <<queueVars, coordVars, ret, transfer, disk>>

\* mutant: the wait is a sleep that the Event does not end
FailoverWait_Sleep ==
    /\ failover.pc = "wait"
    /\ failover.depth < MaxDepth
    /\ failover' = [failover EXCEPT !.waited = TRUE, !.depth = @ + 1,
                                    !.pc = "resolve"]
    /\ UNCHANGED <<queueVars, coordVars, ret, transfer, disk>>

\* lines 635-642: cancel_flag.wait(timeout=sleep_time); set: return "";
\* timed out: _get_download_url calls itself, one level deeper
FailoverWait ==
    /\ failover.pc = "wait"
    /\ cancel_flags[FailoverJob] \/ failover.depth < MaxDepth
    /\ failover' = IF cancel_flags[FailoverJob]
                   THEN NextLink(failover, 0)
                   ELSE [failover EXCEPT !.waited = TRUE, !.depth = @ + 1,
                                         !.pc = "resolve"]
    /\ UNCHANGED <<queueVars, coordVars, ret, transfer, disk>>

\* lines 590-593 and downloader.py line 96: download_url sends its request
FailoverRequest ==
    /\ failover.pc = "request"
    /\ failover' = [failover EXCEPT !.requested = Append(@, failover.i),
                                    !.pc = "stream"]
    /\ UNCHANGED <<queueVars, coordVars, ret, transfer, disk>>

\* lines 593-595 and downloader.py lines 172-259: the answer of download_url;
\* seen: a chunk arrived after the Event was set (downloader.py line 174)
FailoverStream(seen) ==
    /\ failover.pc = "stream"
    /\ seen => cancel_flags[FailoverJob]
    /\ LET kind == failover.links[failover.i]
       IN  IF seen \/ kind = "no_data"
           THEN /\ failover' = NextLink(failover, 1)
                /\ UNCHANGED queueVars
           ELSE /\ BQ_update_progress(FailoverJob, 100)
                /\ failover' = IF kind = "markup" THEN NextLink(failover, 1)
                               ELSE [failover EXCEPT !.pc = "write"]
    /\ UNCHANGED <<coordVars, ret, transfer, disk>>

\* mutant: a failed candidate ends the loop
FailoverWrite_Break ==
    /\ failover.pc = "write"
    /\ failover' =
           IF failover.links[failover.i] = "write_error"
           THEN [failover EXCEPT !.pc = "returned", !.result = FALSE,
                                 !.logged = @ + 1]
           ELSE [failover EXCEPT !.pc = "returned", !.result = TRUE]
    /\ UNCHANGED <<queueVars, coordVars, ret, transfer, disk>>

\* lines 597-601: open(book_path, "wb"), write, return True
FailoverWrite ==
    /\ failover.pc = "write"
    /\ failover' =
           IF failover.links[failover.i] = "write_error"
           THEN NextLink(failover, 1)
           ELSE [failover EXCEPT !.pc = "returned", !.result = TRUE]
    /\ UNCHANGED <<queueVars, coordVars, ret, transfer, disk>>

\* backend.py line 887: success = book_manager.download_book(...)
FailoverReturn ==
    /\ failover.pc = "returned"
    /\ At(Caller, "download")
    /\ failover' = [failover EXCEPT !.pc = "done"]
    /\ active_futures' = [active_futures EXCEPT
           ![Caller].pc = "check892",
           ![Caller].success = failover.result,
           ![Caller].files = IF failover.result THEN {"tmp"} ELSE {}]
    /\ UNCHANGED <<queueVars, coordPc, next_download, ret, transfer, disk>>

\* backend.py lines 890-968 and 1098-1108: what the worker does with the result
WorkerFinish(w) ==
    \/ WorkerCheck892(w)
    \/ WorkerMove(w)
    \/ WorkerCheck959(w)
    \/ WorkerRename(w)
    \/ WorkerCheck1098(w)
    \/ WorkerUpdatePath(w)
    \/ WorkerUpdateStatus(w)

\* the job is DOWNLOADING and its worker is at line 887
DownloadingJob ==
    /\ status = [id \in {FailoverJob} |-> "DOWNLOADING"]
    /\ priority = [id \in {FailoverJob} |-> CHOOSE p \in SchedPriorities : TRUE]
    /\ order = <<>>
    /\ cancel_flags = [id \in {FailoverJob} |-> FALSE]
    /\ download_path = [id \in {FailoverJob} |-> FALSE]
    /\ progress = [id \in {FailoverJob} |-> 0]
    /\ coordPc = "reap"
    /\ next_download = NoJob
    /\ active_futures =
           [w \in 1..(MaxConcurrentDownloads + 1) |->
               IF \A v \in 1..(MaxConcurrentDownloads + 1) : w <= v
               THEN [Idle EXCEPT !.id = FailoverJob, !.pc = "download"]
               ELSE Idle]
    /\ ret = [op |-> "none", val |-> 0]
    /\ disk = NoDisk

\* the list of links is any list of one to MaxLinks links; AA_DONATOR_KEY is
\* set or empty
InitFailover ==
    /\ DownloadingJob
    /\ transfer = NoTransfer
    /\ \E n \in 1..MaxLinks :
          \E ls \in [1..n -> LinkKinds], k \in BOOLEAN :
              failover = [NoFailover EXCEPT !.pc = "start", !.links = ls,
                                            !.i = 1, !.key = k]

NextFailover ==
    \/ CallCancel /\ UNCHANGED callVars
    \/ \E kind \in {"no_data", "ok"} : FailoverStart(kind)
    \/ FailoverResolve
    \/ FailoverWait
    \/ FailoverRequest
    \/ \E seen \in BOOLEAN : FailoverStream(seen)
    \/ FailoverWrite
    \/ FailoverReturn
    \/ \E w \in Slots : WorkerFinish(w) /\ UNCHANGED callVars

SpecFailover == InitFailover /\ [][NextFailover]_vars

\* ---------------------------------------------- downloader.download_url
\* One call of download_url (downloader.py lines 76-263) with the Event of
\* the job as cancel_flag.
max_retries == 3
base_delay == 30
connection_delay == 15
max_stream_retries == 2

\* what requests.get / raise_for_status do with one request: an answer, a
\* 429, another HTTP error, a Timeout or ConnectionError
Responses == {"ok", "429", "http_error", "timeout"}

\* how the iteration over the chunks ends, when it does not reach the end:
\* the Event is seen set (line 175), a ConnectionError that says "timed out",
\* another ConnectionError or ChunkedEncodingError
StreamEvents == {"cancelled", "timed_out", "broken"}

\* total_size, downloaded and the content-type header (its parts) of a
\* stream that reached its end
ExpectedSizes == {0, 100}
ReceivedSizes == {0, 50, 89, 90, 100}
ContentTypes ==
    { <<>>, <<"text/html">>, <<"text/html", "; charset=utf-8">>,
      <<"application/epub+zip">> }

\* mutant: the same delay before every retry
RateLimitDelay_Flat(attempt) == base_delay

\* line 106: wait_time = base_delay * (2 ** attempt)
RateLimitDelay(attempt) == base_delay * (2 ^ attempt)

\* mutant: the same delay before every retry
ConnectionDelay_Flat(attempt) == connection_delay

\* line 127: wait_time = 15 * (attempt + 1)
ConnectionDelay(attempt) == connection_delay * (attempt + 1)

\* content_type.startswith('text/html')
StartsWithHtml(ct) == Len(ct) > 0 /\ ct[1] = "text/html"

\* mutant: a short stream fails whatever its content type
Integrity_SizeOnly(total, got, ct) == total > 0 /\ got * 10 < total * 9

\* lines 251-255: total_size > 0 and downloaded < total_size * 0.9 and HTML
Integrity(total, got, ct) ==
    /\ total > 0
    /\ got * 10 < total * 9
    /\ StartsWithHtml(ct)

\* lines 261-263 (a raise caught by `except RequestException`): return None
Failed(t) == [t EXCEPT !.pc = "returned", !.value = "None", !.reason = "failed"]

\* lines 114, 136, 178: return None
Cancelled(t) ==
    [t EXCEPT !.pc = "returned", !.value = "None", !.reason = "cancelled"]

\* mutant: rate limits and connection errors are counted apart
Respond_OwnCounter(t, resp) ==
    LET r == [t EXCEPT !.responses = Append(@, resp)]
        own == Cardinality({k \in 1..Len(t.responses) : t.responses[k] = resp})
    IN  CASE resp = "ok" -> [r EXCEPT !.pc = "stream"]
          [] resp = "429" ->
                IF own < max_retries - 1
                THEN [r EXCEPT !.sleeps = Append(@, RateLimitDelay(t.attempt)),
                               !.pc = "backoff_check"]
                ELSE Failed(r)
          [] resp = "timeout" ->
                IF own < max_retries - 1
                THEN [r EXCEPT !.sleeps = Append(@, ConnectionDelay(t.attempt)),
                               !.pc = "backoff_check"]
                ELSE Failed(r)
          [] OTHER -> Failed(r)

\* lines 96-143: one request of the retry loop and what follows its answer
Respond(t, resp) ==
    LET r == [t EXCEPT !.responses = Append(@, resp)]
    IN  CASE resp = "ok" -> [r EXCEPT !.pc = "stream"]
          [] resp = "429" ->
                IF t.attempt < max_retries - 1
                THEN [r EXCEPT !.sleeps = Append(@, RateLimitDelay(t.attempt)),
                               !.pc = "backoff_check"]
                ELSE Failed(r)
          [] resp = "timeout" ->
                IF t.attempt < max_retries - 1
                THEN [r EXCEPT !.sleeps = Append(@, ConnectionDelay(t.attempt)),
                               !.pc = "backoff_check"]
                ELSE Failed(r)
          [] OTHER -> Failed(r)

\* lines 96-100, attempt 0
TransferRequest(resp) ==
    /\ transfer.pc = "request"
    /\ transfer' = Respond(transfer, resp)
    /\ UNCHANGED <<queueVars, coordVars, ret, failover, disk>>

\* lines 112-114, 134-136: if cancel_flag.is_set(): return None
TransferBackoffCheck ==
    /\ transfer.pc = "backoff_check"
    /\ transfer' = IF cancel_flags[FailoverJob] THEN Cancelled(transfer)
                   ELSE [transfer EXCEPT !.pc = "backoff_sleep"]
    /\ UNCHANGED <<queueVars, coordVars, ret, failover, disk>>

\* lines 115, 137: time.sleep(1); more: the for loop over range(wait_time)
\* has another round; if not: continue, and the next request is sent
TransferBackoffSleep(more, resp) ==
    /\ transfer.pc = "backoff_sleep"
    /\ transfer' = IF more THEN [transfer EXCEPT !.pc = "backoff_check"]
                   ELSE Respond([transfer EXCEPT !.attempt = @ + 1], resp)
    /\ UNCHANGED <<queueVars, coordVars, ret, failover, disk>>

\* lines 172-236: the iteration over the chunks ends before the end of the
\* stream; fresh_ok: the request of line 232 is answered
TransferStream(ev, fresh_ok) ==
    /\ transfer.pc = "stream"
    /\ ev = "cancelled" => cancel_flags[FailoverJob]
    /\ transfer' =
           CASE ev = "cancelled" -> Cancelled(transfer)
             [] ev = "timed_out"
                /\ transfer.stream_attempt < max_stream_retries - 1 ->
                    IF fresh_ok
                    THEN [transfer EXCEPT !.stream_attempt = @ + 1,
                                          !.fresh = @ + 1]
                    ELSE Failed([transfer EXCEPT !.fresh = @ + 1])
             [] OTHER -> Failed(transfer)
    /\ UNCHANGED <<queueVars, coordVars, ret, failover, disk>>

\* lines 221-259: the stream reaches its end; the size check; return buffer
TransferComplete(total, got, ct) ==
    /\ transfer.pc = "stream"
    /\ transfer' =
           [transfer EXCEPT
               !.pc = "returned",
               !.total_size = total,
               !.downloaded = got,
               !.content_type = ct,
               !.value = IF Integrity(total, got, ct) THEN "None" ELSE "buffer",
               !.reason = IF Integrity(total, got, ct) THEN "integrity"
                          ELSE "complete"]
    /\ UNCHANGED <<queueVars, coordVars, ret, failover, disk>>

\* the job is DOWNLOADING, its worker is inside download_book, which calls
\* download_url
InitTransfer ==
    /\ DownloadingJob
    /\ failover = NoFailover
    /\ transfer = [NoTransfer EXCEPT !.pc = "request"]

NextTransfer ==
    \/ CallCancel /\ UNCHANGED callVars
    \/ \E resp \in Responses : TransferRequest(resp)
    \/ TransferBackoffCheck
    \/ \E more \in BOOLEAN, resp \in Responses : TransferBackoffSleep(more, resp)
    \/ \E ev \in StreamEvents, fresh_ok \in BOOLEAN : TransferStream(ev, fresh_ok)
    \/ \E total \in ExpectedSizes, got \in ReceivedSizes, ct \in ContentTypes :
           TransferComplete(total, got, ct)

SpecTransfer == InitTransfer /\ [][NextTransfer]_vars

\* requests.get, time.sleep(1) and the read of a chunk return, and the for
\* loop over range(wait_time) (lines 111, 133) has a last round
SpecTransferLive ==
    /\ SpecTransfer
    /\ WF_vars(\/ \E resp \in Responses : TransferRequest(resp)
               \/ TransferBackoffCheck
               \/ \E more \in BOOLEAN, resp \in Responses :
                      TransferBackoffSleep(more, resp)
               \/ \E ev \in StreamEvents, fresh_ok \in BOOLEAN :
                      TransferStream(ev, fresh_ok)
               \/ \E total \in ExpectedSizes, got \in ReceivedSizes,
                     ct \in ContentTypes : TransferComplete(total, got, ct))
    /\ SF_vars(\E resp \in Responses : TransferBackoffSleep(FALSE, resp))

\* ------------------------------- download_url: expected size and the stream
\* lines 145-259 of downloader.py after a request was answered: the expected
\* size, the chunks of the stream, the progress callback, the restart of an
\* interrupted stream.  Strings are sequences of characters.
chunk_size == 8192
MaxChunks == 3

DigitOf ==
    [c \in {"0", "1", "2", "3", "4", "5", "6", "7", "8", "9"} |->
        CASE c = "0" -> 0 [] c = "1" -> 1 [] c = "2" -> 2 [] c = "3" -> 3
          [] c = "4" -> 4 [] c = "5" -> 5 [] c = "6" -> 6 [] c = "7" -> 7
          [] c = "8" -> 8 [] c = "9" -> 9]

\* float(s), in tenths, for digits with at most one "." and at most one digit
\* after it; -1: float raises ValueError
float10(s) ==
    LET RECURSIVE IntOf(_)
        IntOf(d) == IF d = <<>> THEN 0
                    ELSE 10 * IntOf(SubSeq(d, 1, Len(d) - 1)) + DigitOf[d[Len(d)]]
        IsDigits(d) == \A i \in 1..Len(d) : d[i] \in DOMAIN DigitOf
        dots == {i \in 1..Len(s) : s[i] = "."}
        dot == CHOOSE i \in dots : TRUE
        whole == IF dots = {} THEN s ELSE SubSeq(s, 1, dot - 1)
        frac == IF dots = {} THEN <<>> ELSE SubSeq(s, dot + 1, Len(s))
    IN  IF /\ Cardinality(dots) <= 1
           /\ IsDigits(whole) /\ IsDigits(frac)
           /\ Len(whole) + Len(frac) > 0
           /\ Len(frac) <= 1
        THEN 10 * IntOf(whole) + (IF frac = <<>> THEN 0 ELSE IntOf(frac))
        ELSE -1

\* lines 146-152: the number in front of the last two characters of the size,
\* taken as MB; if that raises, the content-length header (0 if absent); the
\* result in bytes, -1: the float() of line 152 raises
total_size_of(size, content_length) ==
    LET Upper(c) == CASE c = "k" -> "K" [] c = "m" -> "M" [] c = "g" -> "G"
                      [] c = "b" -> "B" [] OTHER -> c
        nospace == SelectSeq(size, LAMBDA c : c # " ")
        text == [i \in 1..Len(nospace) |->
                    IF nospace[i] = "," THEN "." ELSE Upper(nospace[i])]
        number == float10(SubSeq(text, 1, Len(text) - 2))
        header == IF content_length = <<>> THEN 0 ELSE float10(content_length)
    IN  IF number # -1
        THEN (number \div 10) * 1024 * 1024 + ((number % 10) * 1024 * 1024) \div 10
        ELSE IF header = -1 THEN -1 ELSE header \div 10

\* lines 879-885: whether an exception raised by update_download_progress
\* leaves isolated_progress_callback
isolated_progress_callback_Unguarded(raises) == raises

isolated_progress_callback(raises) == FALSE

\* mutant: the highest percentage is kept
Progress_Highest(pct, raises) ==
    IF raises \/ pct < progress[FailoverJob] THEN UNCHANGED queueVars
    ELSE BQ_update_progress(FailoverJob, pct)

\* the call of progress_callback(pct) at lines 191 and 248
Progress(pct, raises) ==
    IF raises THEN UNCHANGED queueVars
    ELSE BQ_update_progress(FailoverJob, pct)

\* lines 146-156
StreamSize ==
    /\ transfer.pc = "size"
    /\ transfer' =
           LET total == total_size_of(transfer.hint, transfer.header)
           IN  IF total = -1
               THEN [transfer EXCEPT !.pc = "returned", !.value = "raise",
                                     !.reason = "content-length"]
               ELSE [transfer EXCEPT !.pc = "stream", !.total_size = total]
    /\ UNCHANGED <<queueVars, coordVars, ret, failover, disk>>

\* mutant: the percentage of what is still to come
progress_percent_Left(downloaded, total_size) ==
    ((total_size - downloaded) * 100) \div total_size

\* line 187: (downloaded / total_size) * 100.0, in whole percents
progress_percent(downloaded, total_size) ==
    (downloaded * 100) \div total_size

\* what is recorded of one call of progress_callback: the stream attempt it
\* was made in, its argument, whether it is the call of line 248, and whether
\* update_download_progress raised
Report(attempt, pct, final, raises) ==
    [attempt |-> attempt, pct |-> pct, final |-> final, raised |-> raises]

\* lines 174-191: one chunk: the cancel check, buffer.write, the callback
StreamChunk(raises) ==
    /\ transfer.pc = "stream"
    /\ Len(transfer.buffer) < MaxChunks
    /\ IF cancel_flags[FailoverJob]
       THEN /\ transfer' = Cancelled(transfer)
            /\ UNCHANGED queueVars
       ELSE LET t == [transfer EXCEPT
                         !.buffer = Append(@, transfer.stream_attempt),
                         !.downloaded = @ + chunk_size]
            IN  IF transfer.total_size > 0
                THEN \E pct \in {progress_percent(t.downloaded, t.total_size)} :
                     /\ Progress(pct, raises)
                     /\ transfer' =
                            IF isolated_progress_callback(raises)
                            THEN [t EXCEPT !.pc = "returned", !.value = "raise",
                                           !.reason = "callback"]
                            ELSE [t EXCEPT
                                     !.calls = @ + 1,
                                     !.reports = Append(@,
                                         Report(t.stream_attempt, pct, FALSE,
                                                raises))]
                ELSE /\ transfer' = t
                     /\ UNCHANGED queueVars
    /\ UNCHANGED <<coordVars, ret, failover, disk>>

\* mutant: the restarted stream is appended to what was received
StreamInterrupt_Resume(timed_out, fresh_ok) ==
    /\ transfer.pc = "stream"
    /\ transfer' =
           IF timed_out /\ transfer.stream_attempt < max_stream_retries - 1
           THEN IF fresh_ok
                THEN [transfer EXCEPT !.stream_attempt = @ + 1, !.fresh = @ + 1]
                ELSE [Failed(transfer) EXCEPT !.fresh = @ + 1]
           ELSE [Failed(transfer) EXCEPT !.reason = "interrupted"]
    /\ UNCHANGED <<queueVars, coordVars, ret, failover, disk>>

\* lines 223-236: a ConnectionError or ChunkedEncodingError ends the iteration;
\* timed_out: its text has "timed out"; fresh_ok: the request of line 232 is
\* answered
StreamInterrupt(timed_out, fresh_ok) ==
    /\ transfer.pc = "stream"
    /\ transfer' =
           IF timed_out /\ transfer.stream_attempt < max_stream_retries - 1
           THEN IF fresh_ok
                THEN [transfer EXCEPT !.stream_attempt = @ + 1, !.fresh = @ + 1,
                                      !.buffer = <<>>, !.downloaded = 0]
                ELSE [Failed(transfer) EXCEPT !.fresh = @ + 1]
           ELSE [Failed(transfer) EXCEPT !.reason = "interrupted"]
    /\ UNCHANGED <<queueVars, coordVars, ret, failover, disk>>

\* mutant: the size check comes before the last callback
StreamEnd_CheckFirst(ct, raises) ==
    /\ transfer.pc = "stream"
    /\ IF Integrity(transfer.total_size, transfer.downloaded, ct)
       THEN /\ transfer' = [transfer EXCEPT !.pc = "returned",
                                            !.content_type = ct,
                                            !.value = "None",
                                            !.reason = "integrity"]
            /\ UNCHANGED queueVars
       ELSE /\ Progress(100, raises)
            /\ transfer' =
                   [transfer EXCEPT
                       !.pc = "returned",
                       !.calls = @ + 1,
                       !.reports = Append(@,
                           Report(transfer.stream_attempt, 100, TRUE, raises)),
                       !.content_type = ct,
                       !.value = "buffer",
                       !.reason = "complete"]
    /\ UNCHANGED <<coordVars, ret, failover, disk>>

\* lines 221, 247-259: the stream ends; the last callback; the size check
StreamEnd(ct, raises) ==
    /\ transfer.pc = "stream"
    /\ Progress(100, raises)
    /\ transfer' =
           IF isolated_progress_callback(raises)
           THEN [transfer EXCEPT !.pc = "returned", !.value = "raise",
                                 !.reason = "callback"]
           ELSE [transfer EXCEPT
                    !.pc = "returned",
                    !.calls = @ + 1,
                    !.reports = Append(@,
                        Report(transfer.stream_attempt, 100, TRUE, raises)),
                    !.content_type = ct,
                    !.value = IF Integrity(transfer.total_size,
                                           transfer.downloaded, ct)
                              THEN "None" ELSE "buffer",
                    !.reason = IF Integrity(transfer.total_size,
                                            transfer.downloaded, ct)
                               THEN "integrity" ELSE "complete"]
    /\ UNCHANGED <<coordVars, ret, failover, disk>>

\* a request was answered; the size of the book is one of: "2 MB", "1,5 MB",
\* "2mb", "3 KB", "1 GB", "0 MB", "", "N/A"; the content-length header is
\* absent, "0", "16384" or "abc"
InitStream ==
    /\ DownloadingJob
    /\ failover = NoFailover
    /\ \E hint \in { <<"2", " ", "M", "B">>, <<"1", ",", "5", " ", "M", "B">>,
                     <<"2", "m", "b">>, <<"3", " ", "K", "B">>,
                     <<"1", " ", "G", "B">>, <<"0", " ", "M", "B">>,
                     <<>>, <<"N", "/", "A">> },
          header \in { <<>>, <<"0">>, <<"1", "6", "3", "8", "4">>,
                       <<"a", "b", "c">> } :
          transfer = [pc |-> "size", hint |-> hint, header |-> header,
                      total_size |-> 0, buffer |-> <<>>, downloaded |-> 0,
                      stream_attempt |-> 0, fresh |-> 0, calls |-> 0,
                      reports |-> <<>>,
                      content_type |-> <<>>, value |-> "none",
                      reason |-> "none"]

NextStream ==
    \/ CallCancel /\ UNCHANGED callVars
    \/ StreamSize
    \/ \E raises \in BOOLEAN : StreamChunk(raises)
    \/ \E timed_out, fresh_ok \in BOOLEAN : StreamInterrupt(timed_out, fresh_ok)
    \/ \E ct \in ContentTypes, raises \in BOOLEAN : StreamEnd(ct, raises)

SpecStream == InitStream /\ [][NextStream]_vars

\* ------------------------------------------- the files of two executions
\* _download_book_with_cancellation and _process_single_download for the jobs
\* of FileJobs, running at the same time (MAX_CONCURRENT_DOWNLOADS >= 2), with
\* the directories TMP_DIR and INGEST_DIR.  disk.files: the files that exist,
\* each with the job that opened it and whether it was written to its end;
\* disk.written: every (path, job) such that the job created, moved or
\* renamed a file to the path; disk.w: the position, the extension of
\* book_name and the return value of each execution.
FileJobs == {1, 2}
UnknownId == 3
Formats == {"epub", "pdf"}

\* lines 860-869, 942-943: TMP_DIR / book_name, INGEST_DIR / "<id>.crdownload"
\* and INGEST_DIR / book_name; book_name is made of the title (lines 365-582,
\* the id is no part of it) or of the id (line 863), and of the format
PathOf(kind, j, ext) ==
    LET base == IF disk.use_title THEN <<"title", disk.title[j]>>
                ELSE <<"id", j>>
    IN  CASE kind = "tmp" -> <<"TMP_DIR", base, ext>>
          [] kind = "intermediate" -> <<"INGEST_DIR", <<"id", j>>, "crdownload">>
          [] OTHER -> <<"INGEST_DIR", base, ext>>

FileAt(path) == {f \in disk.files : f.path = path}

\* book_manager.py lines 587-598: download_book has the data of a link (ok)
\* and opens book_path for writing, or has no link that works and returns
\* False (backend.py lines 898-899 raise, line 969 returns None)
FilesOpen(j, ok) ==
    /\ disk.w[j].pc = "open"
    /\ disk' =
           IF ok
           THEN [disk EXCEPT
                    !.files = (@ \ FileAt(PathOf("tmp", j, disk.w[j].ext)))
                                  \cup {[path |-> PathOf("tmp", j, disk.w[j].ext),
                                         by |-> j, full |-> FALSE]},
                    !.written = @ \cup {<<PathOf("tmp", j, disk.w[j].ext), j>>},
                    !.w[j].pc = "write"]
           ELSE [disk EXCEPT !.w[j].pc = "finish"]
    /\ UNCHANGED <<queueVars, coordVars, ret, failover, transfer>>

\* book_manager.py lines 599-601: f.write(data.getbuffer()), close, return True
FilesWrite(j) ==
    /\ disk.w[j].pc = "write"
    /\ disk' = [disk EXCEPT
           !.files = {IF f.path = PathOf("tmp", j, disk.w[j].ext) /\ f.by = j
                      THEN [f EXCEPT !.full = TRUE] ELSE f : f \in @},
           !.w[j].pc = "check892"]
    /\ UNCHANGED <<queueVars, coordVars, ret, failover, transfer>>

\* backend.py lines 890-907
FilesCheck892(j) ==
    /\ disk.w[j].pc = "check892"
    /\ disk' = IF cancel_flags[j]
               THEN [disk EXCEPT
                        !.files = @ \ FileAt(PathOf("tmp", j, disk.w[j].ext)),
                        !.w[j].pc = "finish"]
               ELSE [disk EXCEPT !.w[j].pc = "move"]
    /\ UNCHANGED <<queueVars, coordVars, ret, failover, transfer>>

\* backend.py lines 911-956, 968: if book_path exists: a detected format that
\* differs from the extension renames it inside TMP_DIR; then it is moved to
\* the intermediate path; if it does not exist: return str(final_path)
FilesMove(j, actual) ==
    /\ disk.w[j].pc = "move"
    /\ LET old == PathOf("tmp", j, disk.w[j].ext)
           new == PathOf("tmp", j, actual)
           to == PathOf("intermediate", j, actual)
       IN  disk' =
               IF FileAt(old) # {}
               THEN [disk EXCEPT
                        !.files = (@ \ (FileAt(old) \cup FileAt(new) \cup FileAt(to)))
                                      \cup {[f EXCEPT !.path = to] : f \in FileAt(old)},
                        !.written = @ \cup {<<new, j>>, <<to, j>>},
                        !.w[j].ext = actual,
                        !.w[j].pc = "check959"]
               ELSE [disk EXCEPT
                        !.w[j].result = PathOf("final", j, disk.w[j].ext),
                        !.w[j].pc = "finish"]
    /\ UNCHANGED <<queueVars, coordVars, ret, failover, transfer>>

\* backend.py lines 959-963
FilesCheck959(j) ==
    /\ disk.w[j].pc = "check959"
    /\ disk' = IF cancel_flags[j]
               THEN [disk EXCEPT
                        !.files = @ \ FileAt(PathOf("intermediate", j, disk.w[j].ext)),
                        !.w[j].pc = "finish"]
               ELSE [disk EXCEPT !.w[j].pc = "rename"]
    /\ UNCHANGED <<queueVars, coordVars, ret, failover, transfer>>

\* backend.py lines 965-968: os.rename(intermediate_path, final_path)
FilesRename(j) ==
    /\ disk.w[j].pc = "rename"
    /\ LET from == PathOf("intermediate", j, disk.w[j].ext)
           to == PathOf("final", j, disk.w[j].ext)
       IN  disk' = [disk EXCEPT
               !.files = (@ \ (FileAt(from) \cup FileAt(to)))
                             \cup {[f EXCEPT !.path = to] : f \in FileAt(from)},
               !.written = @ \cup {<<to, j>>},
               !.w[j].result = to,
               !.w[j].pc = "finish"]
    /\ UNCHANGED <<queueVars, coordVars, ret, failover, transfer>>

\* backend.py lines 1098-1108, taken as one step here (Spec has them apart)
FilesFinish(j) ==
    /\ disk.w[j].pc = "finish"
    /\ disk' = [disk EXCEPT !.w[j].pc = "done"]
    /\ status' = [status EXCEPT ![j] =
           IF cancel_flags[j] THEN "CANCELLED"
           ELSE IF disk.w[j].result # <<>> THEN "AVAILABLE" ELSE "ERROR"]
    /\ download_path' = [download_path EXCEPT ![j] =
           ~cancel_flags[j] /\ disk.w[j].result # <<>>]
    /\ UNCHANGED <<priority, order, cancel_flags, progress>>
    /\ UNCHANGED <<coordVars, ret, failover, transfer>>

\* something outside the program takes the delivered file of a job away
FilesDelete(j) ==
    /\ status[j] = "AVAILABLE"
    /\ FileAt(disk.w[j].result) # {}
    /\ disk' = [disk EXCEPT !.files = @ \ FileAt(disk.w[j].result)]
    /\ UNCHANGED <<queueVars, coordVars, ret, failover, transfer>>

\* backend.py lines 819-828; book_queue._book_data is a dict: an unknown id
\* raises KeyError at line 820, and `if book_info` at line 826 then reads a
\* local that was never bound
get_book_data(id) ==
    /\ IF id \notin Known
       THEN /\ ret' = [op |-> "get_book_data", id |-> id, val |-> "raise"]
            /\ UNCHANGED queueVars
       ELSE IF download_path[id] /\ FileAt(disk.w[id].result) # {}
       THEN /\ ret' = [op |-> "get_book_data", id |-> id, val |-> "bytes"]
            /\ UNCHANGED queueVars
       ELSE /\ ret' = [op |-> "get_book_data", id |-> id, val |-> "None"]
            /\ download_path' = [download_path EXCEPT ![id] = FALSE]
            /\ UNCHANGED <<status, priority, order, cancel_flags, progress>>
    /\ UNCHANGED <<coordVars, failover, transfer, disk>>

\* both jobs are DOWNLOADING and their executions are about to call
\* download_book; the titles are the same or differ; USE_BOOK_TITLE is set or
\* not
InitFiles ==
    /\ status = [j \in FileJobs |-> "DOWNLOADING"]
    /\ priority = [j \in FileJobs |-> 0]
    /\ order = <<>>
    /\ cancel_flags = [j \in FileJobs |-> FALSE]
    /\ download_path = [j \in FileJobs |-> FALSE]
    /\ progress = [j \in FileJobs |-> 0]
    /\ coordPc = "reap"
    /\ next_download = NoJob
    /\ active_futures = [w \in 1..(MaxConcurrentDownloads + 1) |-> Idle]
    /\ ret = [op |-> "none", val |-> 0]
    /\ failover = NoFailover
    /\ transfer = NoTransfer
    /\ \E use_title \in BOOLEAN, title \in [FileJobs -> {1, 2}] :
          /\ title[1] = 1
          /\ disk = [use_title |-> use_title, title |-> title, files |-> {},
                     written |-> {},
                     w |-> [j \in FileJobs |->
                               [pc |-> "open", ext |-> "epub", result |-> <<>>]]]

NextFiles ==
    \/ \E j \in FileJobs : cancel_download(j) /\ UNCHANGED <<ret, callVars>>
    \/ \E j \in FileJobs, ok \in BOOLEAN : FilesOpen(j, ok)
    \/ \E j \in FileJobs : FilesWrite(j)
    \/ \E j \in FileJobs : FilesCheck892(j)
    \/ \E j \in FileJobs, actual \in Formats : FilesMove(j, actual)
    \/ \E j \in FileJobs : FilesCheck959(j)
    \/ \E j \in FileJobs : FilesRename(j)
    \/ \E j \in FileJobs : FilesFinish(j)
    \/ \E j \in FileJobs : FilesDelete(j)
    \/ \E id \in FileJobs \cup {UnknownId} : get_book_data(id)

SpecFiles == InitFiles /\ [][NextFiles]_vars

\* ------------------------------------------------------------------ claims
\* C1: in every reachable state the number of jobs whose status is
\* DOWNLOADING is at most the configured limit MaxConcurrentDownloads.
C1_BoundedDownloads ==
    Cardinality(WithStatus("DOWNLOADING")) <= MaxConcurrentDownloads

\* the limit is reached while a job waits and the coordinator dispatches
C1_Witness ==
    /\ Cardinality(WithStatus("DOWNLOADING")) = MaxConcurrentDownloads
    /\ WithStatus("QUEUED") # {}
    /\ coordPc = "dispatch"

\* C2: every change of a job's status is one of the five transitions
\* QUEUED->DOWNLOADING, QUEUED->CANCELLED, DOWNLOADING->ERROR,
\* DOWNLOADING->AVAILABLE, DOWNLOADING->CANCELLED.
C2_Allowed ==
    { <<"QUEUED", "DOWNLOADING">>, <<"QUEUED", "CANCELLED">>,
      <<"DOWNLOADING", "ERROR">>, <<"DOWNLOADING", "AVAILABLE">>,
      <<"DOWNLOADING", "CANCELLED">> }

C2_Transitions ==
    [][\A id \in Known \cap DOMAIN status' :
          status'[id] # status[id]
              => <<status[id], status'[id]>> \in C2_Allowed]_vars

\* a worker has brought its job from DOWNLOADING to a terminal status
C2_Witness ==
    \E w \in Slots :
        /\ At(w, "done")
        /\ Job(w) \in Known
        /\ active_futures[w].new_status = "AVAILABLE"
        /\ status[Job(w)] = "AVAILABLE"

\* C3: a job whose Event was set while it was DOWNLOADING ends CANCELLED:
\* a job in a terminal status whose Event is set has status CANCELLED.
C3_CancelledWins ==
    \A id \in Known :
        cancel_flags[id] /\ status[id] \in Terminal => status[id] = "CANCELLED"

\* C4: a worker execution that ended its job with status CANCELLED has left
\* no file: no temporary file, no .crdownload file, no file under the final
\* name.
C4_NoFileAfterCancel ==
    \A w \in Slots :
        At(w, "done") /\ active_futures[w].new_status = "CANCELLED"
            => active_futures[w].files = {}

\* C5: cancel_download on a QUEUED job sets CANCELLED in the same step, and
\* a CANCELLED job is not returned by get_next, does not change status and
\* gets no worker execution.
Running(id) ==
    \E w \in Slots : Job(w) = id /\ active_futures[w].pc \notin {"idle", "done"}

C5_CancelQueued ==
    [][\A id \in Known :
          /\ status[id] = "QUEUED" /\ cancel_download(id)
                => /\ id \in DOMAIN status'
                   /\ status'[id] = "CANCELLED"
                   /\ cancel_flags'[id]
          /\ status[id] = "CANCELLED"
                => /\ next_download' = id => next_download = id
                   /\ id \in DOMAIN status' => status'[id] = "CANCELLED"
                   /\ Running(id)' => Running(id)]_vars

\* a job cancelled while it waited, without a worker, while another job runs
C5_Witness ==
    \E id \in Known, other \in Known :
        /\ status[id] = "CANCELLED"
        /\ cancel_flags[id]
        /\ \A w \in Slots : Job(w) # id
        /\ status[other] = "DOWNLOADING"
        /\ Running(other)

\* C6: get_next returns the QUEUED job with the smallest priority value, the
\* earliest inserted among equal priorities, and sets it to DOWNLOADING in
\* the same step; it returns nothing exactly when no job is QUEUED.
C6_GetNext ==
    [][QGetNext =>
          LET r == ret'.val
              Q == WithStatus("QUEUED")
          IN  IF Q = {}
              THEN r = NoJob /\ UNCHANGED queueVars
              ELSE /\ r \in Q
                   /\ \A b \in Q \ {r} :
                         \/ priority[r] < priority[b]
                         \/ priority[r] = priority[b] /\ Pos(r) < Pos(b)
                   /\ status' = [status EXCEPT ![r] = "DOWNLOADING"]]_vars

\* get_next has returned a job while a later inserted job of the same
\* priority and a job inserted earlier with a larger priority value wait
C6_Witness ==
    /\ ret = [op |-> "get_next", val |-> 2]
    /\ WithStatus("DOWNLOADING") = {2}
    /\ WithStatus("QUEUED") = {1, 3}
    /\ priority[2] = 3 /\ priority[3] = 3 /\ priority[1] = 5
    /\ order = <<1, 3>>

\* C7: reorder_queue applies its whole batch in one step: after the step
\* every non-terminal job of the batch has the priority of the batch, and
\* nothing else has changed.
C7_AtomicBatch ==
    [][ret'.op = "reorder_queue" =>
       \A m \in QueueReorders :
          QReorder(m) =>
              /\ \A id \in Known :
                    priority'[id] =
                        IF /\ id \in DOMAIN m
                           /\ status[id] \in {"QUEUED", "DOWNLOADING"}
                        THEN m[id] ELSE priority[id]
              /\ UNCHANGED <<status, order, cancel_flags, download_path,
                             progress>>]_vars

\* a batch has given two waiting jobs their priorities
C7_Witness ==
    /\ ret.op = "reorder_queue"
    /\ WithStatus("QUEUED") = {1, 2}
    /\ order = <<1, 2>>
    /\ priority[1] = 5 /\ priority[2] = 3
    /\ BQ_get_next_id = 2

\* C8: get_queue_order is the QUEUED jobs, each once, sorted by (priority,
\* insertion order); after reorder_queue(m) the priorities of m are the
\* ones used; jobs 1, 2, 3 with m = {1: 5, 2: 1, 3: 3} give <<2, 3, 1>>; and
\* get_next dequeues in that order.
C8_Sorted ==
    LET q == get_queue_order
    IN  /\ Len(q) = Cardinality(WithStatus("QUEUED"))
        /\ {q[i] : i \in 1..Len(q)} = WithStatus("QUEUED")
        /\ \A i \in 1..Len(q), j \in 1..Len(q) :
              i < j => \/ priority[q[i]] < priority[q[j]]
                       \/ /\ priority[q[i]] = priority[q[j]]
                          /\ Pos(q[i]) < Pos(q[j])

C8_Example ==
    /\ WithStatus("QUEUED") = {1, 2, 3}
    /\ order = <<1, 2, 3>>
    /\ priority[1] = 5 /\ priority[2] = 1 /\ priority[3] = 3
    => get_queue_order = <<2, 3, 1>>

C8_QueueOrder ==
    /\ []C8_Sorted
    /\ []C8_Example
    /\ [][ret'.op = "reorder_queue" =>
          \A m \in QueueReorders :
             QReorder(m) =>
                 LET key(id) == IF id \in DOMAIN m THEN m[id] ELSE priority[id]
                 IN  \A q \in {get_queue_order'} :
                         \A i \in 1..Len(q), j \in 1..Len(q) :
                             i < j => key(q[i]) <= key(q[j])]_vars
    /\ [][QGetNext /\ WithStatus("QUEUED") # {} =>
             /\ ret'.val = Head(get_queue_order)
             /\ get_queue_order' = Tail(get_queue_order)]_vars

\* the example of the claim, right after the batch
C8_Witness ==
    /\ ret.op = "reorder_queue"
    /\ WithStatus("QUEUED") = {1, 2, 3}
    /\ order = <<1, 2, 3>>
    /\ priority[1] = 5 /\ priority[2] = 1 /\ priority[3] = 3
    /\ get_queue_order = <<2, 3, 1>>

\* C9: set_book_priority on a terminal or unknown job returns false and
\* changes nothing of the queue; on a QUEUED or DOWNLOADING job it returns
\* true and changes that job's priority only.
C9_SetPriority ==
    [][\A id \in QueueIds, p \in QueuePriorities :
          QSetPriority(id, p) =>
              IF id \in Known /\ status[id] \in {"QUEUED", "DOWNLOADING"}
              THEN /\ ret'.val = 1
                   /\ priority' = [priority EXCEPT ![id] = p]
                   /\ UNCHANGED <<status, order, cancel_flags, download_path,
                                  progress>>
              ELSE /\ ret'.val = 0
                   /\ UNCHANGED queueVars]_vars

\* every job is known, and the last call, on a terminal job, returned false
C9_Witness ==
    /\ ret = [op |-> "set_book_priority", val |-> 0]
    /\ Known = QueueIds
    /\ WithStatus("DOWNLOADING") # {}

\* C10: clear_completed removes exactly the AVAILABLE, ERROR and CANCELLED
\* jobs, returns their number and leaves every other job, and the waiting
\* order, as they were; the status snapshot after it holds none of them.
C10_ClearCompleted ==
    [][QClearCompleted =>
          LET T == {id \in Known :
                       status[id] \in {"AVAILABLE", "ERROR", "CANCELLED"}}
              Kept == Known \ T
          IN  /\ DOMAIN status' = Kept
              /\ DOMAIN priority' = Kept
              /\ DOMAIN progress' = Kept
              /\ DOMAIN cancel_flags' = Kept
              /\ DOMAIN download_path' = Kept
              /\ ret'.val = Cardinality(T)
              /\ \A id \in Kept :
                    /\ status'[id] = status[id]
                    /\ priority'[id] = priority[id]
                    /\ progress'[id] = progress[id]
                    /\ cancel_flags'[id] = cancel_flags[id]
                    /\ download_path'[id] = download_path[id]
              /\ order' = order]_vars

\* two jobs have been removed and counted; a DOWNLOADING job whose Event is
\* set is still there
C10_Witness ==
    /\ ret = [op |-> "clear_completed", val |-> 2]
    /\ Cardinality(Known) = 1
    /\ \E id \in Known :
          status[id] = "DOWNLOADING" /\ cancel_flags[id] /\ priority[id] = 3

\* C11: queue_book on an id already in the queue updates the priority of
\* that job and leaves its status, whatever it is, its Event, its place in
\* the waiting order and every other job as they were; no job is created.
C11_ReAdd ==
    [][\A id \in QueueIds, p \in QueuePriorities :
          QQueueBook(id, p) /\ id \in Known =>
              /\ status' = status
              /\ priority' = [priority EXCEPT ![id] = p]
              /\ UNCHANGED <<order, cancel_flags, download_path, progress>>
              /\ UNCHANGED coordVars]_vars

\* the only job, DOWNLOADING with its Event set, has been added again
C11_Witness ==
    /\ ret.op = "queue_book"
    /\ Known = {1}
    /\ status[1] = "DOWNLOADING"
    /\ cancel_flags[1]
    /\ priority[1] = 5

C13_FirstSuccess ==
    failover.pc \in {"returned", "done"} /\ failover.result
    /\ ~cancel_flags[FailoverJob]
        => LET ls == failover.links
               i == failover.i
               f == failover.fetched
               r == failover.requested
           IN  /\ Succeeds(ls[i])
               /\ \A k \in 1..(i - 1) : ~Succeeds(ls[k])
               /\ {f[k] : k \in 1..Len(f)} = 1..i
               /\ \A j \in 1..Len(f), k \in 1..Len(f) : j < k => f[j] <= f[k]
               /\ \A j \in 1..Len(r), k \in 1..Len(r) : j < k => r[j] < r[k]
               /\ r[Len(r)] = i
               /\ failover.logged = i - 1

C15_StopsOnCancel ==
    [][/\ cancel_flags[FailoverJob]
          /\ failover.pc \in {"resolve", "wait", "request", "stream", "write"}
              => /\ failover'.fetched = failover.fetched
                 /\ failover'.requested = failover.requested
       /\ cancel_flags[FailoverJob] /\ At(Caller, "check1098")
          /\ active_futures'[Caller].pc = "done"
              => status'[FailoverJob] = "CANCELLED"]_vars

\* C16: when the Event is set while _get_download_url waits at a countdown,
\* the wait ends with no URL: the page is not fetched again, nothing is
\* raised or logged, and the loop goes on with the next link (or returns
\* False after the last); no link is ever fetched after a later one.
C16_CancelledWait ==
    [][/\ failover.pc = "wait" /\ cancel_flags[FailoverJob]
          /\ failover' # failover
              => /\ failover'.fetched = failover.fetched
                 /\ failover'.requested = failover.requested
                 /\ failover'.logged = failover.logged
                 /\ IF failover.i < Len(failover.links)
                    THEN /\ failover'.pc = "resolve"
                         /\ failover'.i = failover.i + 1
                    ELSE /\ failover'.pc = "returned"
                         /\ ~failover'.result
       /\ failover'.i >= failover.i
       /\ failover'.fetched # failover.fetched
              => failover'.fetched = Append(failover.fetched, failover.i)]_vars

\* the wait at the first link was ended by the Event: its page was fetched
\* once and the loop is at the second link
C16_Witness ==
    /\ failover.pc = "resolve"
    /\ failover.i = 2
    /\ failover.links[1] = "countdown"
    /\ failover.fetched = <<1>>
    /\ failover.requested = <<>>
    /\ failover.logged = 0
    /\ cancel_flags[FailoverJob]

\* C17: when every request is answered with 429 the call makes exactly
\* max_retries requests, waits base_delay and then twice base_delay between
\* them (30 s, then 60 s: strictly increasing, doubling), never waits after
\* the last request, and returns the failure value.
C17_RateLimited ==
    /\ Len(transfer.responses) <= max_retries
    /\ transfer.pc \in {"backoff_check", "backoff_sleep"}
           => Len(transfer.responses) < max_retries
    /\ \A k \in 1..Len(transfer.sleeps) :
           transfer.responses[k] = "429"
               => /\ transfer.sleeps[k] = base_delay * 2 ^ (k - 1)
                  /\ k > 1 /\ transfer.responses[k - 1] = "429"
                       => /\ transfer.sleeps[k] = 2 * transfer.sleeps[k - 1]
                          /\ transfer.sleeps[k] > transfer.sleeps[k - 1]
    /\ ( /\ transfer.pc = "returned"
         /\ transfer.reason # "cancelled"
         /\ \A k \in 1..Len(transfer.responses) : transfer.responses[k] = "429" )
           => /\ Len(transfer.responses) = max_retries
              /\ transfer.sleeps = <<30, 60>>
              /\ transfer.value = "None"
              /\ transfer.reason = "failed"

C17_Witness ==
    /\ transfer.pc = "returned"
    /\ transfer.responses = <<"429", "429", "429">>
    /\ transfer.sleeps = <<30, 60>>
    /\ transfer.value = "None"
    /\ ~cancel_flags[FailoverJob]

\* C18: a request that fails with a connection or timeout error is retried
\* after 15 s times the number of that attempt, the retry loop sends at most
\* max_retries requests and returns the failure value when the last of them
\* fails too; an HTTP error other than 429 ends the call with the failure
\* value at once, with no wait and no further request.
C18_ConnectionRetry ==
    /\ Len(transfer.responses) <= max_retries
    /\ \A k \in 1..Len(transfer.sleeps) :
           transfer.responses[k] = "timeout" => transfer.sleeps[k] = 15 * k
    /\ \A k \in 1..Len(transfer.responses) :
           transfer.responses[k] = "http_error"
               => /\ k = Len(transfer.responses)
                  /\ Len(transfer.sleeps) = k - 1
                  /\ transfer.pc = "returned"
                  /\ transfer.value = "None"
                  /\ transfer.reason = "failed"
    /\ ( /\ transfer.pc = "returned"
         /\ transfer.reason # "cancelled"
         /\ \A k \in 1..Len(transfer.responses) :
                transfer.responses[k] = "timeout" )
           => /\ Len(transfer.responses) = max_retries
              /\ transfer.sleeps = <<15, 30>>
              /\ transfer.value = "None"
              /\ transfer.reason = "failed"

C18_Witness ==
    /\ transfer.pc = "returned"
    /\ transfer.responses = <<"timeout", "timeout", "timeout">>
    /\ transfer.sleeps = <<15, 30>>
    /\ transfer.value = "None"
    /\ ~cancel_flags[FailoverJob]

\* C19: once the Event of the job is set during a wait between two requests,
\* download_url sends no further request, and what it returns for the
\* cancellation differs from what it returns for a failed transfer, so that
\* download_book can tell the two apart.
C19_CancelledBackoff ==
    [][ /\ ( /\ transfer.pc \in {"backoff_check", "backoff_sleep"}
             /\ cancel_flags[FailoverJob] )
               => transfer'.responses = transfer.responses
        /\ ( /\ transfer.pc \in {"backoff_check", "backoff_sleep"}
             /\ transfer'.pc = "returned"
             /\ transfer'.reason = "cancelled" )
               => transfer'.value # Failed(transfer).value ]_vars

\* C20: a stream that reached its end is returned as a failure exactly when
\* the expected size is known (> 0), fewer than 90% of it were received and
\* the content type starts with text/html; in every other case the buffer is
\* returned.  Half of the expected bytes with text/html is a failure.
C20_IntegrityCheck ==
    transfer.pc = "returned" /\ transfer.reason \in {"complete", "integrity"}
        => /\ transfer.value \in {"None", "buffer"}
           /\ transfer.value = "None"
                  <=> /\ transfer.total_size > 0
                      /\ 100 * transfer.downloaded < 90 * transfer.total_size
                      /\ transfer.content_type # <<>>
                      /\ Head(transfer.content_type) = "text/html"
           /\ transfer.total_size = 0 => transfer.value = "buffer"
           /\ Head(transfer.content_type \o <<"">>) # "text/html"
                  => transfer.value = "buffer"
           /\ ( /\ transfer.total_size = 100
                /\ transfer.downloaded = 50
                /\ transfer.content_type = <<"text/html">> )
                  => transfer.value = "None"

C20_Witness ==
    /\ transfer.pc = "returned"
    /\ transfer.total_size = 100
    /\ transfer.downloaded = 50
    /\ transfer.content_type = <<"text/html">>
    /\ transfer.value = "None"
    /\ transfer.reason = "integrity"

\* C21: the expected size of a fetch is the number of bytes its size hint
\* denotes, for the units KB, MB and GB ("0 MB" denotes 0 bytes); the
\* content-length header is used only when the hint does not parse, and the
\* size is unknown (0) only when the header is absent or zero too.
C21_ExpectedSize ==
    transfer.pc \in {"stream", "returned"} /\ transfer.value # "raise"
        => LET KB == 1024
               MB == 1024 * 1024
               GB == 1024 * 1024 * 1024
               hint == transfer.hint
               header == IF transfer.header = <<"1", "6", "3", "8", "4">>
                         THEN 16384 ELSE 0
           IN  transfer.total_size =
                   CASE hint = <<"3", " ", "K", "B">> -> 3 * KB
                     [] hint = <<"2", " ", "M", "B">> -> 2 * MB
                     [] hint = <<"2", "m", "b">> -> 2 * MB
                     [] hint = <<"1", ",", "5", " ", "M", "B">> -> MB + MB \div 2
                     [] hint = <<"1", " ", "G", "B">> -> GB
                     [] hint = <<"0", " ", "M", "B">> -> 0
                     [] OTHER -> header

\* C22: with a known expected size the progress callback is called once for
\* every chunk received (and once more at the end of the stream), and a call
\* that raises changes nothing for the transfer: the chunk is kept, the
\* stream goes on, and the call returns what it returns with a callback that
\* does nothing.
C22_CallbackIsolated ==
    [][ /\ transfer'.reason # "callback"
        /\ ( /\ transfer.pc = "stream"
             /\ Len(transfer'.buffer) = Len(transfer.buffer) + 1 )
               => /\ transfer'.pc = "stream"
                  /\ transfer'.downloaded = transfer.downloaded + chunk_size
                  /\ transfer'.calls =
                         transfer.calls + (IF transfer.total_size > 0 THEN 1 ELSE 0)
        /\ ( /\ transfer.pc = "stream"
             /\ transfer'.reason \in {"complete", "integrity"} )
               => /\ transfer'.calls = transfer.calls + 1
                  /\ transfer'.buffer = transfer.buffer
                  /\ transfer'.value \in {"buffer", "None"} ]_vars

C22_Witness ==
    /\ transfer.pc = "returned"
    /\ transfer.value = "buffer"
    /\ transfer.total_size = 2 * chunk_size
    /\ Len(transfer.buffer) = 2
    /\ transfer.calls = 3
    /\ progress[FailoverJob] = 0

\* C23: every call of download_url ends by returning the buffer or the
\* failure value; no exception leaves it.
C23_NeverRaises ==
    transfer.pc = "returned" => transfer.value \in {"buffer", "None"}

\* C24: an interrupted stream is restarted from byte zero at most once: the
\* buffer and the byte count hold the chunks of the current stream attempt
\* only, never a chunk of an interrupted attempt, and an interruption that
\* is not followed by a restart ends the call with the failure value.
C24_Restart ==
    /\ transfer.fresh <= 1
    /\ transfer.fresh <= max_stream_retries - 1
    /\ transfer.stream_attempt <= transfer.fresh
    /\ \A k \in 1..Len(transfer.buffer) :
           transfer.buffer[k] = transfer.stream_attempt
    /\ transfer.downloaded = chunk_size * Len(transfer.buffer)
    /\ transfer.reason = "interrupted"
           => transfer.pc = "returned" /\ transfer.value = "None"

C24_Witness ==
    /\ transfer.pc = "returned"
    /\ transfer.value = "buffer"
    /\ transfer.fresh = 1
    /\ transfer.buffer = <<1, 1>>
    /\ transfer.downloaded = 2 * chunk_size

\* C25: two executions that run at the same time for different jobs never
\* create, move or rename a file to the same path, whether in TMP_DIR or in
\* INGEST_DIR, also when the two books have the same title, author and format.
C25_OwnPaths ==
    \A a, b \in disk.written : a[1] = b[1] => a[2] = b[2]

\* C26: a file under a final name in INGEST_DIR is never a partially written
\* file; it gets there only by the rename of an execution that has written
\* its own file to the end, and an execution returns a path only if a file
\* exists at that path.
C26_TwoStageWrite ==
    [][ /\ \A f \in disk'.files :
               f.path[1] = "INGEST_DIR" /\ f.path[3] # "crdownload" => f.full
        /\ \A f \in disk'.files :
               ( /\ f.path[1] = "INGEST_DIR" /\ f.path[3] # "crdownload"
                 /\ f \notin disk.files )
                   => \E j \in FileJobs :
                          /\ disk.w[j].pc = "rename"
                          /\ disk'.w[j].pc = "finish"
                          /\ disk'.w[j].result = f.path
                          /\ f.by = j
        /\ \A j \in DOMAIN disk'.w :
               ( /\ disk.w[j].pc # "finish"
                 /\ disk'.w[j].pc = "finish"
                 /\ disk'.w[j].result # <<>> )
                   => \E f \in disk'.files : f.path = disk'.w[j].result ]_vars

\* C27: in every state of the queue a job has a download path only if its
\* status is AVAILABLE.
C27_PathOnlyAvailable ==
    \A id \in Known : download_path[id] => status[id] = "AVAILABLE"

\* C28: get_book_data(id) returns the bytes of the file only for a job that
\* is AVAILABLE and whose file exists; for a job that is not AVAILABLE, for a
\* file that was taken away and for an unknown id it returns the failure
\* value, raises nothing, and changes no status.
C28_FetchResult ==
    [][ \A id \in FileJobs \cup {UnknownId} :
            get_book_data(id)
                => /\ ret'.val \in {"bytes", "None"}
                   /\ status' = status
                   /\ ret'.val = "bytes"
                          => /\ id \in Known
                             /\ status[id] = "AVAILABLE"
                             /\ \E f \in disk.files : f.path = disk.w[id].result
      ]_vars

C30_NoRetry ==
    [][ /\ \A w \in Slots :
               ( /\ active_futures'[w].pc = "submitted"
                 /\ active_futures[w].pc # "submitted" )
                   => /\ coordPc = "submit"
                      /\ active_futures'[w].id = next_download
                      /\ \A v \in Slots :
                             active_futures[v].id = next_download
                                 => active_futures[v].pc \in {"idle", "done"}
        /\ \A id \in Known :
               next_download' = id /\ next_download # id => status[id] = "QUEUED"
        /\ \A id \in Known :
               id \in DOMAIN status' /\ status'[id] = "QUEUED"
                   => status[id] = "QUEUED" ]_vars

C30_Witness ==
    /\ \E id \in Known : status[id] = "ERROR" /\ ~cancel_flags[id]
    /\ \A id \in Known : status[id] \in Terminal
    /\ \A w \in Slots : active_futures[w] = Idle
    /\ coordPc = "reap"
    /\ next_download = NoJob

\* C33: the resolution of one link ends: a link whose page shows a countdown
\* again after every wait is fetched again a bounded number of times only.
\* As a statement about every run: _get_download_url calls itself for one
\* link fewer than MaxDepth times
C33_BoundedRequeries ==
    failover.depth < MaxDepth

\* C35: with AA_DONATOR_KEY the fast link is tried first and once, the other
\* links follow in the order of the stored list, and the stored list of the
\* job is not changed by download_book.  The last part, as a statement about
\* every step: book_info.download_urls stays what it was
C35_StoredListKept ==
    [][failover'.links = failover.links]_vars

\* C34: no network call is started for a job whose Event is set: download_url
\* entered with the Event set returns without sending its first request
C34_NoCallAfterCancel ==
    [][transfer.pc = "request" /\ cancel_flags[FailoverJob]
          => transfer'.responses = transfer.responses]_vars

\* C40: one call of download_url sends a bounded number of requests: 429
\* answers and connection errors use up the same attempt counter, so at most
\* max_retries requests are sent before the stream starts and at most one more
\* for a restart of the stream, and the call returns.
C40_BoundedRequests ==
    /\ [](/\ Len(transfer.responses) <= max_retries
          /\ Len(transfer.sleeps) <= max_retries - 1
          /\ transfer.attempt <= Len(transfer.sleeps)
          /\ Len(transfer.sleeps) <= transfer.attempt + 1
          /\ transfer.fresh <= max_stream_retries - 1
          /\ transfer.fresh > 0
                 => transfer.responses[Len(transfer.responses)] = "ok"
          /\ Len(transfer.responses) + transfer.fresh
                 <= max_retries + max_stream_retries - 1)
    /\ <>(transfer.pc = "returned")

C40_Witness ==
    /\ transfer.pc = "returned"
    /\ transfer.responses = <<"429", "timeout", "ok">>
    /\ transfer.sleeps = <<30, 30>>
    /\ transfer.fresh = 1
    /\ transfer.value = "buffer"

\* C31: after any calls of update_progress the progress of the job is within
\* 0..100 and is the clamped argument of the last call that reached the
\* queue, also when download_url reports more than 100 percent because more
\* bytes arrived than the expected size.
C31_ProgressClamped ==
    LET r == transfer.reports
        stored == {k \in 1..Len(r) : ~r[k].raised}
    IN  /\ progress[FailoverJob] \in 0..100
        /\ progress[FailoverJob] =
               IF stored = {} THEN 0
               ELSE Clamp(r[CHOOSE k \in stored : \A l \in stored : l <= k].pct)

C31_Witness ==
    /\ transfer.pc = "stream"
    /\ Len(transfer.reports) = 3
    /\ transfer.reports[3].pct = 150
    /\ ~transfer.reports[3].raised
    /\ progress[FailoverJob] = 100

C39_FinalReport ==
    LET r == transfer.reports
        finals == {k \in 1..Len(r) : r[k].final}
    IN  IF transfer.pc = "returned"
           /\ transfer.reason \in {"complete", "integrity"}
        THEN /\ finals = {Len(r)}
             /\ Len(r) > 0
             /\ r[Len(r)].pct = 100
             /\ r[Len(r)].attempt = transfer.stream_attempt
        ELSE finals = {}

C39_Witness ==
    /\ transfer.pc = "returned"
    /\ transfer.reason = "integrity"
    /\ transfer.value = "None"
    /\ Len(transfer.reports) = 2
    /\ transfer.reports[1].pct = 50
    /\ transfer.reports[2].final

\* C32: the state of a job (status, priority, progress, path, metadata) is
\* read and changed only inside the operations of the queue.  For the caller
\* operation get_book_data: what it changes of the queue's state is the
\* effect of one operation of the queue
C32_InsideQueue ==
    [][\A id \in FileJobs \cup {UnknownId} :
          get_book_data(id)
              => \/ UNCHANGED queueVars
                 \/ \E j \in DOMAIN status' : BQ_add(j, priority'[j])
                 \/ BQ_get_next
                 \/ \E j \in Known : BQ_set_priority(j, priority'[j])
                 \/ BQ_reorder_queue(priority')
                 \/ \E j \in Known, st \in QueueStatus : BQ_update_status(j, st)
                 \/ \E j \in Known : BQ_update_progress(j, progress'[j])
                 \/ \E j \in Known : BQ_update_download_path(j)
                 \/ \E j \in Known : BQ_cancel_download(j)
                 \/ BQ_clear_completed]_vars

C37_AllSettle ==
    /\ \A id \in BookIds :
           (id \in Known /\ status[id] \notin Terminal)
               ~> (id \notin Known \/ status[id] \in Terminal)
    /\ [](\A id \in Known :
              status[id] = "DOWNLOADING"
                  => \/ next_download = id
                     \/ \E w \in Slots :
                            /\ Job(w) = id
                            /\ active_futures[w].pc \notin {"idle", "done"})

C37_Witness ==
    /\ Known = {1, 2}
    /\ status[1] = "AVAILABLE"
    /\ status[2] = "CANCELLED"
    /\ \A w \in Slots : active_futures[w] = Idle
    /\ order = <<>>

====
